---- MODULE Spec2Model ----
(***************************************************************************)
(* playkit: the main loop of start() and the registries it works on.       *)
(*                                                                         *)
(* Time is counted in milliseconds (clock.tick returns whole milliseconds, *)
(* dt = ms / 1000.0).  Velocities are kept in thousandths of a pixel per   *)
(* second, so that speed += gravity * dt stays an integer.  A pygame.Rect  *)
(* holds integers: assigning a float to rect.x / rect.y truncates toward   *)
(* zero.  Sprite objects live in objs (the Python heap, indexed by object  *)
(* identity); the registries hold identities.                              *)
(***************************************************************************)
EXTENDS Integers, Sequences, FiniteSets, TLC

\* ------------------------------------------------------------ bounds
MaxFrames == 4
MaxEvents == 2

\* --------------------------------------------------- program constants
MsPerSec == 1000
Width == 50
Height == 50

\* The frame durations clock.tick can return (ms).
DtSet == {500, 1000}

\* ------------------------------------------------------------ helpers
Range(s) == {s[i] : i \in DOMAIN s}

Max(a, b) == IF a >= b THEN a ELSE b

Min(a, b) == IF a <= b THEN a ELSE b

\* int(n / d) for d > 0: the conversion a pygame.Rect applies to a float.
Trunc(n, d) == IF n >= 0 THEN n \div d ELSE -((-n) \div d)

SeqsUpTo(S, n) == UNION {[1..k -> S] : k \in 0..n}

\* ------------------------------------------------------- pygame.Rect
colliderect(a, b) ==
    /\ a.w > 0 /\ a.h > 0 /\ b.w > 0 /\ b.h > 0
    /\ a.x < b.x + b.w /\ b.x < a.x + a.w
    /\ a.y < b.y + b.h /\ b.y < a.y + a.h

collidepoint(r, pos) ==
    /\ r.x <= pos[1] /\ pos[1] < r.x + r.w
    /\ r.y <= pos[2] /\ pos[2] < r.y + r.h

\* --------------------------------------------------------- the log
\* What one loop iteration did, in order: the passes it entered and the
\* user callbacks it invoked.  Reset when the next iteration starts.
Entry(k, n, i, a, b, ok) == [k |-> k, n |-> n, i |-> i, a |-> a, b |-> b, ok |-> ok]

Logged(wd, e) == [wd EXCEPT !.log = Append(@, e)]

EnterPass(wd, n) == Logged(wd, Entry("pass", n, 0, 0, 0, TRUE))

\* ------------------------------------------------------ GameSprite
\* lifetime, follow, gravity and control_speed are <<>> for None / attribute
\* not set.
GameSprite(x, y, width, height, speed, lifetime) ==
    [x |-> x, y |-> y, w |-> width, h |-> height,
     vx |-> speed[1] * MsPerSec, vy |-> speed[2] * MsPerSec,
     lifetime |-> lifetime, age |-> 0, follow |-> <<>>,
     bounce |-> FALSE, alive |-> TRUE,
     gravity |-> <<>>, on_ground |-> FALSE, control_speed |-> <<>>]

set_speed(wd, s, dx, dy) ==
    [wd EXCEPT !.objs[s].vx = dx * MsPerSec, !.objs[s].vy = dy * MsPerSec]

follow(wd, s, target, speed) == [wd EXCEPT !.objs[s].follow = <<target, speed>>]

set_bounce(wd, s, enable) == [wd EXCEPT !.objs[s].bounce = enable]

\* ------------------------------------------------------ public API
\* Each takes the world (every module global plus the script's own
\* variables) and returns the world after the call.
sprite(wd, x, y, width, height, speed, lifetime) ==
    LET id == Len(wd.objs) + 1
    IN  [wd EXCEPT !.objs = Append(@, GameSprite(x, y, width, height, speed, lifetime)),
                   !.sprites = Append(@, id)]

\* The object the latest sprite() call returned.
Latest(wd) == Len(wd.objs)

platform(wd, x, y, width, height) ==
    LET w1 == sprite(wd, x, y, width, height, <<0, 0>>, <<>>)
    IN  [w1 EXCEPT !.platforms = Append(@, Latest(w1))]

enable_gravity(wd, s, g) ==
    [wd EXCEPT !.objs[s].gravity = <<g>>, !.objs[s].on_ground = FALSE]

\* The log keeps the call, with the alive flag it found.
destroy(wd, s) ==
    Logged([wd EXCEPT !.objs[s].alive = FALSE],
           Entry("destroy", "", 0, s, 0, wd.objs[s].alive))

game_over(wd, message) ==
    LET w1 == [wd EXCEPT !.game_over_flag = TRUE, !.game_over_msg = message]
    IN  Logged(w1, Entry("game_over", message, 0, 0, 0, TRUE))

on_game_start(wd, fn) == [wd EXCEPT !.game_start_handlers = Append(@, fn)]

when_overlap(wd, a, b, fn) ==
    [wd EXCEPT !.overlap_handlers = Append(@, [a |-> a, b |-> b, fn |-> fn])]

when_update(wd, fn) == [wd EXCEPT !.update_handlers = Append(@, fn)]

on_game_update(wd, fn) == [wd EXCEPT !.game_update_handlers = Append(@, fn)]

draw_circle(wd, x, y, radius) ==
    [wd EXCEPT !.draw_commands = Append(@, <<"circle", x, y, radius>>)]

write(wd, text, x, y, size) ==
    [wd EXCEPT !.text_commands = Append(@, <<text, x, y, size>>)]

\* dict.setdefault(key, []).append(fn) on an insertion-ordered dict, kept
\* as a sequence of [key, fns] entries.
SetDefaultAppend(d, key, fn) ==
    IF \E i \in DOMAIN d : d[i].key = key
    THEN [i \in DOMAIN d |->
            IF d[i].key = key THEN [d[i] EXCEPT !.fns = Append(@, fn)] ELSE d[i]]
    ELSE Append(d, [key |-> key, fns |-> <<fn>>])

when_key(wd, key_name, fn) ==
    [wd EXCEPT !.key_handlers = SetDefaultAppend(@, key_name, fn)]

when_click(wd, sprite_obj, fn) ==
    [wd EXCEPT !.click_handlers = SetDefaultAppend(@, sprite_obj, fn)]

\* control_arrows registers a closure over the sprite and the bounds
\* (<<>> for bounds=None) as a pre-physics callback.
control_arrows(wd, s, speed, bounds) ==
    on_game_update([wd EXCEPT !.objs[s].control_speed = <<speed>>],
                   [fn |-> "handler", sprite |-> s, bounds |-> bounds])

\* ---------------------------------------------------- module state
\* The module's globals right after import, with the script's own
\* variables (globs: its global names, hits: its overlap counter) and the
\* iteration log.
Imported ==
    [objs |-> <<>>, sprites |-> <<>>, platforms |-> <<>>,
     overlap_handlers |-> <<>>, key_handlers |-> <<>>, click_handlers |-> <<>>,
     update_handlers |-> <<>>, game_update_handlers |-> <<>>,
     game_start_handlers |-> <<>>,
     draw_commands |-> <<>>, text_commands |-> <<>>,
     game_over_flag |-> FALSE, game_over_msg |-> "",
     globs |-> [b |-> 0, rock |-> 0, hero |-> 0], hits |-> 0, log |-> <<>>]

\* ------------------------------------------------- the game script
\* The callbacks a script hands to the library, by name.
Gravity == 20
RockLifetime == 2
WinScore == 1
ClickPos == <<12, 37>>

\* The on-start callback: a platform, a hero that falls onto it, a target
\* b resting on the platform and a rock that expires.
setup(wd) ==
    LET w1 == platform(wd, 0, 40, 50, 10)
        plat == Latest(w1)
        w2 == sprite(w1, 20, 20, 10, 10, <<0, 0>>, <<>>)
        w3 == enable_gravity(w2, Latest(w2), Gravity)
        w4 == sprite(w3, 5, 35, 10, 10, <<0, 0>>, <<>>)
        b == Latest(w4)
        w5 == sprite(w4, 10, 30, 10, 10, <<0, 0>>, <<RockLifetime>>)
        rock == Latest(w5)
        w6 == when_overlap(w5, plat, b, "count")
        w7 == when_click(when_click(w6, b, "ring"), b, "win")
        w8 == when_click(w7, rock, "tag")
    IN  write([w8 EXCEPT !.globs = [b |-> b, rock |-> rock, hero |-> Latest(w2)]],
              "Go", 20, 20, 24)

\* Held key k: the target is destroyed.
kill(wd) == destroy(wd, wd.globs.b)

\* Pre-physics: the score line; the game is lost once the target is gone.
hud(wd) ==
    LET w1 == write(wd, "Score", 10, 10, 24)
    IN  IF wd.objs[wd.globs.b].alive THEN w1 ELSE game_over(w1, "You Lose!")

ring(wd) == draw_circle(wd, 25, 25, 5)

\* Overlap of the platform and the target: one more point.
count(wd) == [wd EXCEPT !.hits = @ + 1]

\* Click on the target: the game is won once the score is reached.
win(wd) == IF wd.hits >= WinScore THEN game_over(wd, "You Win!") ELSE wd

\* Held key up: the hero jumps when it stands on a platform.
JumpSpeed == 30

jump(wd) ==
    IF wd.objs[wd.globs.hero].on_ground
    THEN set_speed(wd, wd.globs.hero, 0, -JumpSpeed)
    ELSE wd

\* Invoking callback fn: kind says which registry it came from, i its
\* place there, a and b the sprites it was registered or called with.
\* The callbacks "tag" and "idle" do nothing.
Call(wd, fn, kind, i, a, b) ==
    LET ok == (a = 0 \/ wd.objs[a].alive) /\ (b = 0 \/ wd.objs[b].alive)
        w1 == Logged(wd, Entry(kind, fn, i, a, b, ok))
    IN  CASE fn = "setup" -> setup(w1)
          [] fn = "kill"  -> kill(w1)
          [] fn = "hud"   -> hud(w1)
          [] fn = "ring"  -> ring(w1)
          [] fn = "count" -> count(w1)
          [] fn = "win"   -> win(w1)
          [] fn = "jump"  -> jump(w1)
          [] OTHER        -> w1

\* The script's top level, run before start(): it creates one sprite (a
\* backdrop) outside every on-start callback and registers the callbacks.
Script ==
    LET w0 == sprite(Imported, 40, 0, 5, 5, <<0, 0>>, <<>>)
        w1 == on_game_start(w0, "setup")
        w2 == when_key(w1, "k", "kill")
        w3 == on_game_update(on_game_update(w2, "hud"), "idle")
    IN  when_update(when_update(w3, "ring"), "idle")

\* ------------------------------------------------------ input events
\* What pygame.event.get() can return: a batch of at most MaxEvents events.
Quit == [type |-> "QUIT", key |-> "", pos |-> <<0, 0>>]

KeyDown(key) == [type |-> "KEYDOWN", key |-> key, pos |-> <<0, 0>>]

MouseDown(pos) == [type |-> "MOUSEBUTTONDOWN", key |-> "", pos |-> pos]

Events == {Quit, KeyDown("space"), KeyDown("a"), MouseDown(ClickPos)}

\* The keys pygame.key.get_pressed() can report as held.
Keys == {"k"}

\* --------------------------------------------------- on-start callbacks
\* for fn in _game_start_handlers: fn()
RECURSIVE RunStartHandlers(_, _)
RunStartHandlers(wd, i) ==
    IF i > Len(wd.game_start_handlers) THEN wd
    ELSE RunStartHandlers(Call(wd, wd.game_start_handlers[i], "start", i, 0, 0), i + 1)

\* ------------------------------------------------------ event pass
\* The restart branch: reset state (keep handlers), run the on-start
\* callbacks again.
\* (mutant) the registry is not cleared.
ResetKeepSprites(wd) ==
    [wd EXCEPT !.draw_commands = <<>>, !.text_commands = <<>>,
               !.game_over_flag = FALSE]

ResetState(wd) ==
    [wd EXCEPT !.sprites = <<>>, !.draw_commands = <<>>, !.text_commands = <<>>,
               !.game_over_flag = FALSE]

\* (mutant) the reset done after the on-start callbacks.
RestartResetLast(wd) == ResetState(RunStartHandlers(wd, 1))

Restart(wd) == RunStartHandlers(ResetState(wd), 1)

\* (mutant) any key restarts.
RestartAnyKey(wd, e) == wd.game_over_flag

RestartKey(wd, e) == wd.game_over_flag /\ e.key = "space"

\* (mutant) no break: the loop goes on with the next event.
KeepRest(batch) == Tail(batch)

\* break: what is left of the polled batch is not handled.
DropRest(batch) == <<>>

\* (mutant) clicks are dispatched in GameOver too.
ClickAlways(wd) == TRUE

ClickAllowed(wd) == ~wd.game_over_flag

RECURSIVE ClickFns(_, _, _)
ClickFns(wd, i, j) ==
    LET e == wd.click_handlers[i]
    IN  IF j > Len(e.fns) THEN wd
        ELSE ClickFns(Call(wd, e.fns[j], "click", j, e.key, 0), i, j + 1)

ClickHit(wd, spr, pos) == collidepoint(wd.objs[spr], pos)

RECURSIVE ClickDispatch(_, _, _)
ClickDispatch(wd, pos, i) ==
    IF i > Len(wd.click_handlers) THEN wd
    ELSE ClickDispatch(IF ClickHit(wd, wd.click_handlers[i].key, pos)
                       THEN ClickFns(wd, i, 1) ELSE wd,
                       pos, i + 1)

\* --------------------------------------------------- held-key pass
RECURSIVE KeyFns(_, _, _)
KeyFns(wd, i, j) ==
    LET e == wd.key_handlers[i]
    IN  IF j > Len(e.fns) THEN wd
        ELSE KeyFns(Call(wd, e.fns[j], "key", j, 0, 0), i, j + 1)

RECURSIVE KeyDispatch(_, _, _)
KeyDispatch(wd, pressed, i) ==
    IF i > Len(wd.key_handlers) THEN wd
    ELSE KeyDispatch(IF wd.key_handlers[i].key \in pressed
                     THEN KeyFns(wd, i, 1) ELSE wd,
                     pressed, i + 1)

\* ------------------------------------------- per-frame callback passes
RECURSIVE GameUpdateDispatch(_, _)
GameUpdateDispatch(wd, i) ==
    IF i > Len(wd.game_update_handlers) THEN wd
    ELSE GameUpdateDispatch(Call(wd, wd.game_update_handlers[i], "pre", i, 0, 0), i + 1)

RECURSIVE UpdateDispatch(_, _)
UpdateDispatch(wd, i) ==
    IF i > Len(wd.update_handlers) THEN wd
    ELSE UpdateDispatch(Call(wd, wd.update_handlers[i], "post", i, 0, 0), i + 1)

\* -------------------------------------------- control_arrows handler
\* The arrow keys pygame.key.get_pressed() can report as held.
Arrows == {"left", "right", "up", "down"}

\* (mutant) the upper limit is forgotten.
ClampLow(x, lo, hi) == Max(lo, x)

\* max(lo, min(x, hi))
Clamp(x, lo, hi) == Max(lo, Min(x, hi))

\* handler(dt) of the closure h, with the arrow keys in pressed held.
handler(wd, h, pressed, ms) ==
    LET o == wd.objs[h.sprite]
        d == o.control_speed[1] * ms
        dx == (IF "right" \in pressed THEN d ELSE 0) - (IF "left" \in pressed THEN d ELSE 0)
        dy == (IF "down" \in pressed THEN d ELSE 0) - (IF "up" \in pressed THEN d ELSE 0)
        x1 == Trunc(o.x * MsPerSec + dx, MsPerSec)
        y1 == Trunc(o.y * MsPerSec + dy, MsPerSec)
    IN  IF h.bounds = <<>>
        THEN [wd EXCEPT !.objs[h.sprite].x = x1, !.objs[h.sprite].y = y1]
        ELSE [wd EXCEPT !.objs[h.sprite].x = Clamp(x1, h.bounds[1], h.bounds[3] - o.w),
                        !.objs[h.sprite].y = Clamp(y1, h.bounds[2], h.bounds[4] - o.h)]

\* for fn in _game_update_handlers: fn(dt), every fn such a closure.
RECURSIVE HandlerDispatch(_, _, _, _)
HandlerDispatch(wd, pressed, ms, i) ==
    IF i > Len(wd.game_update_handlers) THEN wd
    ELSE LET h == wd.game_update_handlers[i]
             w1 == Logged(wd, Entry("pre", h.fn, i, h.sprite, 0, TRUE))
         IN  HandlerDispatch(handler(w1, h, pressed, ms), pressed, ms, i + 1)

\* ------------------------------------------------------ physics pass
\* list.remove(x): drops the first occurrence.
RECURSIVE RemoveFirst(_, _)
RemoveFirst(s, v) ==
    IF s = <<>> THEN <<>>
    ELSE IF Head(s) = v THEN Tail(s)
    ELSE <<Head(s)>> \o RemoveFirst(Tail(s), v)

\* (mutant) the dead sprite is skipped but stays in the registry.
ReapNever(wd, s) == wd

Reap(wd, s) == [wd EXCEPT !.sprites = RemoveFirst(@, s)]

centerx(r) == r.x + r.w \div 2

centery(r) == r.y + r.h \div 2

\* The frame durations are whole tenths of a second: q = spd * ms is counted
\* in tenths (q \div Tenth, with MsPerSec \div Tenth tenths to the second),
\* which keeps the squares below small.
Tenth == MsPerSec \div 10

\* floor(mag * q / (MsPerSec * sqrt(B))) for mag, q >= 0 and B > 0.
FloorRatio(mag, q, B) ==
    LET t == q \div Tenth
        u == MsPerSec \div Tenth
    IN  CHOOSE k \in 0..(q \div MsPerSec + 1) :
            /\ k * k * u * u * B <= mag * mag * t * t
            /\ (k + 1) * (k + 1) * u * u * B > mag * mag * t * t

\* int(x + d * q / (MsPerSec * sqrt(B))): the float sum, truncated toward zero.
AddScaled(x, d, q, B) ==
    LET mag == IF d >= 0 THEN d ELSE -d
        fl == FloorRatio(mag, q, B)
        t == q \div Tenth
        u == MsPerSec \div Tenth
        ce == IF fl * fl * u * u * B = mag * mag * t * t THEN fl ELSE fl + 1
    IN  IF d >= 0
        THEN (IF x + fl >= 0 THEN x + fl ELSE x + ce)
        ELSE (IF x - ce >= 0 THEN x - ce ELSE x - fl)

\* follow: step toward the target's center by spd * dt, straight onto rect.
FollowStep(wd, s, ms) ==
    LET o == wd.objs[s]
    IN  IF o.follow = <<>> THEN wd
        ELSE LET targ == wd.objs[o.follow[1]]
                 spd == o.follow[2]
                 dx == centerx(targ) - centerx(o)
                 dy == centery(targ) - centery(o)
                 B == dx * dx + dy * dy
             IN  IF B = 0 THEN wd
                 ELSE [wd EXCEPT !.objs[s].x = AddScaled(o.x, dx, spd * ms, B),
                                 !.objs[s].y = AddScaled(o.y, dy, spd * ms, B)]

\* gravity: speed.y += gravity * dt
GravityStep(wd, s, ms) ==
    LET o == wd.objs[s]
    IN  IF o.gravity = <<>> THEN wd
        ELSE [wd EXCEPT !.objs[s].vy = @ + o.gravity[1] * ms]

\* movement: rect.x += speed.x * dt; rect.y += speed.y * dt
MoveStep(wd, s, ms) ==
    LET o == wd.objs[s]
        unit == MsPerSec * MsPerSec
    IN  [wd EXCEPT !.objs[s].x = Trunc(o.x * unit + o.vx * ms, unit),
                   !.objs[s].y = Trunc(o.y * unit + o.vy * ms, unit)]

\* edge bounce
\* (mutant) the velocity is negated but the rectangle is not clamped.
BounceXNoClamp(o) ==
    IF o.x < 0 \/ o.x + o.w > Width
    THEN [o EXCEPT !.vx = -o.vx]
    ELSE o

BounceX(o) ==
    IF o.x < 0 \/ o.x + o.w > Width
    THEN [o EXCEPT !.vx = -o.vx, !.x = Max(0, Min(o.x, Width - o.w))]
    ELSE o

BounceY(o) ==
    IF o.y < 0 \/ o.y + o.h > Height
    THEN [o EXCEPT !.vy = -o.vy, !.y = Max(0, Min(o.y, Height - o.h))]
    ELSE o

BounceStep(wd, s) ==
    IF wd.objs[s].bounce
    THEN [wd EXCEPT !.objs[s] = BounceY(BounceX(@))]
    ELSE wd

\* (mutant) no break: the platforms after the first hit are tested too.
RECURSIVE LandOnNoBreak(_, _, _)
LandOnNoBreak(wd, s, i) ==
    IF i > Len(wd.platforms) THEN wd
    ELSE LET plat == wd.platforms[i]
             hit == colliderect(wd.objs[s], wd.objs[plat])
             w1 == Logged(wd, Entry("landtest", "", i, s, plat, hit))
         IN  LandOnNoBreak(IF hit
                           THEN [w1 EXCEPT !.objs[s].y = wd.objs[plat].y - wd.objs[s].h,
                                           !.objs[s].vy = 0,
                                           !.objs[s].on_ground = TRUE]
                           ELSE w1,
                           s, i + 1)

\* platforms (land from above): the first platform hit wins.
RECURSIVE LandOn(_, _, _)
LandOn(wd, s, i) ==
    IF i > Len(wd.platforms) THEN wd
    ELSE LET plat == wd.platforms[i]
             hit == colliderect(wd.objs[s], wd.objs[plat])
             w1 == Logged(wd, Entry("landtest", "", i, s, plat, hit))
         IN  IF hit
             THEN [w1 EXCEPT !.objs[s].y = wd.objs[plat].y - wd.objs[s].h,
                             !.objs[s].vy = 0,
                             !.objs[s].on_ground = TRUE]
             ELSE LandOn(w1, s, i + 1)

PlatformStep(wd, s) ==
    LET o == wd.objs[s]
    IN  IF o.gravity # <<>> /\ o.vy >= 0
        THEN LandOn([wd EXCEPT !.objs[s].on_ground = FALSE], s, 1)
        ELSE wd

\* lifetime
\* (mutant) the sprite lives one step too long.
ExpiredLate(age, lifetime) == age > lifetime * MsPerSec

Expired(age, lifetime) == age >= lifetime * MsPerSec

LifetimeStep(wd, s, ms) ==
    LET o == wd.objs[s]
    IN  IF o.lifetime = <<>> THEN wd
        ELSE LET w1 == [wd EXCEPT !.objs[s].age = @ + ms]
             IN  IF Expired(w1.objs[s].age, o.lifetime[1]) THEN destroy(w1, s) ELSE w1

\* The body of the physics loop for one sprite.
PhysicsOne(wd, s, ms) ==
    IF ~wd.objs[s].alive THEN Reap(wd, s)
    ELSE LifetimeStep(
           PlatformStep(
             BounceStep(
               MoveStep(GravityStep(FollowStep(wd, s, ms), s, ms), s, ms), s), s), s, ms)

\* for spr in list(_sprites): the loop runs over a copy of the registry.
RECURSIVE PhysicsOver(_, _, _)
PhysicsOver(wd, snapshot, ms) ==
    IF snapshot = <<>> THEN wd
    ELSE PhysicsOver(PhysicsOne(wd, Head(snapshot), ms), Tail(snapshot), ms)

PhysicsStep(wd, ms) == PhysicsOver(wd, wd.sprites, ms)

\* ------------------------------------------------------ overlap pass
\* (mutant) edge-triggered: only the first contact is notified.
OverlapFiresFirstContact(wd, t) ==
    /\ wd.hits = 0
    /\ wd.objs[t.a].alive
    /\ wd.objs[t.b].alive
    /\ colliderect(wd.objs[t.a], wd.objs[t.b])

\* (mutant) the alive flags are not tested.
OverlapFiresDead(wd, t) == colliderect(wd.objs[t.a], wd.objs[t.b])

OverlapFires(wd, t) ==
    /\ wd.objs[t.a].alive
    /\ wd.objs[t.b].alive
    /\ colliderect(wd.objs[t.a], wd.objs[t.b])

RECURSIVE OverlapDispatch(_, _)
OverlapDispatch(wd, i) ==
    IF i > Len(wd.overlap_handlers) THEN wd
    ELSE LET t == wd.overlap_handlers[i]
         IN  OverlapDispatch(IF OverlapFires(wd, t)
                             THEN Call(wd, t.fn, "overlap", i, t.a, t.b)
                             ELSE wd,
                             i + 1)

\* ------------------------------------------------------ drawing
\* What the frame put on the screen after the background, in order: every
\* sprite of the registry, then the circles, then the texts.
RenderSprites(wd) ==
    [i \in 1..Len(wd.sprites) |->
        Entry("blit", "", i, wd.sprites[i], 0, wd.objs[wd.sprites[i]].alive)]

RenderCircles(wd) ==
    [i \in 1..Len(wd.draw_commands) |-> Entry("circle", "", i, 0, 0, TRUE)]

RenderTexts(wd) ==
    [i \in 1..Len(wd.text_commands) |->
        Entry("text", wd.text_commands[i][1], i, 0, 0, TRUE)]

Render(wd) ==
    [wd EXCEPT !.log = @ \o RenderSprites(wd) \o RenderCircles(wd) \o RenderTexts(wd)]

\* (mutant) the text buffer is not cleared.
ClearCircles(wd) == [wd EXCEPT !.draw_commands = <<>>]

ClearBuffers(wd) == [wd EXCEPT !.draw_commands = <<>>, !.text_commands = <<>>]

\* ------------------------------------------------------------ state
VARIABLES
    objs, sprites, platforms,
    overlap_handlers, key_handlers, click_handlers,
    update_handlers, game_update_handlers, game_start_handlers,
    draw_commands, text_commands,
    game_over_flag, game_over_msg,
    globs, hits,
    running, dt, events, pc,
    frames, log, paused, restarted, restarts, removed

\* running, dt, events: the locals of start().  pc: where start() is.
\* frames: iterations begun.  log: what this
\* iteration did.  paused: the game-over flag as the iteration began.
\* restarted: this iteration handled a restart.  restarts: restarts so far.
\* removed: the sprites restarts took out of the registry.
vars ==
    <<objs, sprites, platforms, overlap_handlers, key_handlers, click_handlers,
      update_handlers, game_update_handlers, game_start_handlers,
      draw_commands, text_commands, game_over_flag, game_over_msg, globs, hits,
      running, dt, events, pc, frames, log, paused, restarted, restarts,
      removed>>

World ==
    [objs |-> objs, sprites |-> sprites, platforms |-> platforms,
     overlap_handlers |-> overlap_handlers, key_handlers |-> key_handlers,
     click_handlers |-> click_handlers, update_handlers |-> update_handlers,
     game_update_handlers |-> game_update_handlers,
     game_start_handlers |-> game_start_handlers,
     draw_commands |-> draw_commands, text_commands |-> text_commands,
     game_over_flag |-> game_over_flag, game_over_msg |-> game_over_msg,
     globs |-> globs, hits |-> hits, log |-> log]

Becomes(wd) ==
    /\ objs' = wd.objs
    /\ sprites' = wd.sprites
    /\ platforms' = wd.platforms
    /\ overlap_handlers' = wd.overlap_handlers
    /\ key_handlers' = wd.key_handlers
    /\ click_handlers' = wd.click_handlers
    /\ update_handlers' = wd.update_handlers
    /\ game_update_handlers' = wd.game_update_handlers
    /\ game_start_handlers' = wd.game_start_handlers
    /\ draw_commands' = wd.draw_commands
    /\ text_commands' = wd.text_commands
    /\ game_over_flag' = wd.game_over_flag
    /\ game_over_msg' = wd.game_over_msg
    /\ globs' = wd.globs
    /\ hits' = wd.hits
    /\ log' = wd.log

\* start() up to the loop: the on-start callbacks run once.
Launch == RunStartHandlers(Script, 1)

Init ==
    /\ objs = Launch.objs
    /\ sprites = Launch.sprites
    /\ platforms = Launch.platforms
    /\ overlap_handlers = Launch.overlap_handlers
    /\ key_handlers = Launch.key_handlers
    /\ click_handlers = Launch.click_handlers
    /\ update_handlers = Launch.update_handlers
    /\ game_update_handlers = Launch.game_update_handlers
    /\ game_start_handlers = Launch.game_start_handlers
    /\ draw_commands = Launch.draw_commands
    /\ text_commands = Launch.text_commands
    /\ game_over_flag = Launch.game_over_flag
    /\ game_over_msg = Launch.game_over_msg
    /\ globs = Launch.globs
    /\ hits = Launch.hits
    /\ log = Launch.log
    /\ running = TRUE
    /\ dt = 0
    /\ events = <<>>
    /\ pc = "loop"
    /\ frames = 0
    /\ paused = FALSE
    /\ restarted = FALSE
    /\ restarts = 0
    /\ removed = {}

\* ------------------------------------------------------------ actions
\* (mutant) the overlap notifier placed before the physics loop.
AfterPassOverlapFirst(p) ==
    CASE p = "keys"    -> "update"
      [] p = "update"  -> "overlap"
      [] p = "overlap" -> "physics"
      [] p = "physics" -> "hooks"
      [] p = "hooks"   -> "draw"
      [] p = "draw"    -> "flip"
      [] p = "flip"    -> "loop"

\* (mutant) the sprites drawn before the physics loop.
AfterPassDrawFirst(p) ==
    CASE p = "keys"    -> "update"
      [] p = "update"  -> "draw"
      [] p = "draw"    -> "physics"
      [] p = "physics" -> "overlap"
      [] p = "overlap" -> "hooks"
      [] p = "hooks"   -> "flip"
      [] p = "flip"    -> "loop"

\* The order of the passes in the body of the loop.
AfterPass(p) ==
    CASE p = "keys"    -> "update"
      [] p = "update"  -> "physics"
      [] p = "physics" -> "overlap"
      [] p = "overlap" -> "hooks"
      [] p = "hooks"   -> "draw"
      [] p = "draw"    -> "flip"
      [] p = "flip"    -> "loop"

\* while running: dt = clock.tick(60) / 1000.0; pygame.event.get()
Tick ==
    /\ pc = "loop"
    /\ running
    /\ frames < MaxFrames
    /\ \E ms \in DtSet, batch \in SeqsUpTo(Events, MaxEvents) :
          /\ dt' = ms
          /\ events' = batch
    /\ frames' = frames + 1
    /\ pc' = "events"
    /\ paused' = game_over_flag
    /\ restarted' = FALSE
    /\ Becomes(EnterPass([World EXCEPT !.log = <<>>], "events"))
    /\ UNCHANGED <<running, restarts, removed>>

\* pygame.quit(); sys.exit()
Exit ==
    /\ pc = "loop"
    /\ ~running
    /\ pc' = "exit"
    /\ UNCHANGED <<objs, sprites, platforms, overlap_handlers, key_handlers,
                   click_handlers, update_handlers, game_update_handlers,
                   game_start_handlers, draw_commands, text_commands,
                   game_over_flag, game_over_msg, globs, hits, running, dt,
                   events, frames, log, paused, restarted, restarts,
                   removed>>

\* One turn of "for event in pygame.event.get()".
HandleEvent ==
    /\ pc = "events"
    /\ events # <<>>
    /\ LET e == Head(events)
       IN  \/ /\ e.type = "QUIT"
              /\ running' = FALSE
              /\ events' = Tail(events)
              /\ Becomes(World)
              /\ UNCHANGED <<restarted, restarts, removed>>
           \/ /\ e.type = "KEYDOWN"
              /\ RestartKey(World, e)
              /\ events' = DropRest(events)
              /\ restarted' = TRUE
              /\ restarts' = restarts + 1
              /\ removed' = removed \cup Range(sprites)
              /\ Becomes(Restart(World))
              /\ UNCHANGED running
           \/ /\ e.type = "KEYDOWN"
              /\ ~RestartKey(World, e)
              /\ events' = Tail(events)
              /\ Becomes(World)
              /\ UNCHANGED <<running, restarted, restarts, removed>>
           \/ /\ e.type = "MOUSEBUTTONDOWN"
              /\ ClickAllowed(World)
              /\ events' = Tail(events)
              /\ Becomes(ClickDispatch(World, e.pos, 1))
              /\ UNCHANGED <<running, restarted, restarts, removed>>
           \/ /\ e.type = "MOUSEBUTTONDOWN"
              /\ ~ClickAllowed(World)
              /\ events' = Tail(events)
              /\ Becomes(World)
              /\ UNCHANGED <<running, restarted, restarts, removed>>
    /\ UNCHANGED <<dt, pc, frames, paused>>

\* if _game_over_flag: the overlay, then continue
GameOverScreen ==
    /\ pc = "events"
    /\ events = <<>>
    /\ game_over_flag
    /\ pc' = "loop"
    /\ Becomes(EnterPass(World, "screen"))
    /\ UNCHANGED <<running, dt, events, frames, paused, restarted,
                   restarts, removed>>

\* Continuous key handlers
HeldKeys ==
    /\ pc = "events"
    /\ events = <<>>
    /\ ~game_over_flag
    /\ \E pressed \in SUBSET Keys :
          Becomes(KeyDispatch(EnterPass(World, "keys"), pressed, 1))
    /\ pc' = AfterPass("keys")
    /\ UNCHANGED <<running, dt, events, frames, paused, restarted,
                   restarts, removed>>

\* on_game_update hooks
PrePhysics ==
    /\ pc = "update"
    /\ pc' = AfterPass(pc)
    /\ Becomes(GameUpdateDispatch(EnterPass(World, "update"), 1))
    /\ UNCHANGED <<running, dt, events, frames, paused, restarted,
                   restarts, removed>>

Physics ==
    /\ pc = "physics"
    /\ pc' = AfterPass(pc)
    /\ Becomes(PhysicsStep(EnterPass(World, "physics"), dt))
    /\ UNCHANGED <<running, dt, events, frames, paused, restarted,
                   restarts, removed>>

\* overlap events
Overlap ==
    /\ pc = "overlap"
    /\ pc' = AfterPass(pc)
    /\ Becomes(OverlapDispatch(EnterPass(World, "overlap"), 1))
    /\ UNCHANGED <<running, dt, events, frames, paused, restarted,
                   restarts, removed>>

\* when_update hooks
PostPhysics ==
    /\ pc = "hooks"
    /\ pc' = AfterPass(pc)
    /\ Becomes(UpdateDispatch(EnterPass(World, "hooks"), 1))
    /\ UNCHANGED <<running, dt, events, frames, paused, restarted,
                   restarts, removed>>

\* Drawing: background, sprites, circles, text
Draw ==
    /\ pc = "draw"
    /\ pc' = AfterPass(pc)
    /\ Becomes(Render(EnterPass(World, "draw")))
    /\ UNCHANGED <<running, dt, events, frames, paused, restarted,
                   restarts, removed>>

\* pygame.display.flip(); both buffers cleared
Flip ==
    /\ pc = "flip"
    /\ pc' = AfterPass(pc)
    /\ Becomes(ClearBuffers(EnterPass(World, "clear")))
    /\ UNCHANGED <<running, dt, events, frames, paused, restarted,
                   restarts, removed>>

Next ==
    \/ Tick
    \/ Exit
    \/ HandleEvent
    \/ GameOverScreen
    \/ HeldKeys
    \/ PrePhysics
    \/ Physics
    \/ Overlap
    \/ PostPhysics
    \/ Draw
    \/ Flip

Spec == Init /\ [][Next]_vars

\* ------------------------------------------- scripts for the physics
\* Scripts that exercise the physics loop and the control_arrows handler:
\* they register no event, overlap or post-physics callback, never call
\* game_over and draw nothing, so their frames are Running frames in which
\* only the held-key pass, the pre-physics pass and the physics loop act.
LabFrames == 3

\* A platform beside the hero, then two platforms below it, the one
\* registered later being the higher; the hero falls with gravity g from
\* speed vy0 and jumps on key up.
LandingScript(g, vy0) ==
    LET w1 == platform(Imported, 40, 40, 10, 10)
        w2 == platform(w1, 0, 40, 50, 10)
        w3 == platform(w2, 0, 38, 50, 10)
        w4 == sprite(w3, 20, 20, 10, 10, <<0, vy0>>, <<>>)
        w5 == enable_gravity(w4, Latest(w4), g)
    IN  when_key([w5 EXCEPT !.globs.hero = Latest(w4)], "up", "jump")

\* A bouncing sprite.
BounceScript(x0, vx, vy) ==
    LET w1 == sprite(Imported, x0, 20, 10, 10, <<vx, vy>>, <<>>)
    IN  set_bounce(w1, Latest(w1), TRUE)

\* A sprite of the given width moved with the arrow keys inside bounds.
ArrowsScript(width, speed) ==
    LET w1 == sprite(Imported, 20, 20, width, 10, <<0, 0>>, <<>>)
    IN  control_arrows(w1, Latest(w1), speed, <<5, 5, 45, 45>>)

\* A bouncing target that moves left, past the sprite that follows it.
FollowScript ==
    LET w1 == sprite(Imported, 12, 20, 10, 10, <<-10, 0>>, <<>>)
        targ == Latest(w1)
        w2 == set_bounce(w1, targ, TRUE)
        w3 == sprite(w2, 10, 20, 10, 10, <<0, 0>>, <<RockLifetime>>)
    IN  follow(w3, Latest(w3), targ, 5)

LabScripts ==
    {LandingScript(g, vy0) : g \in {20, 40}, vy0 \in {0, 10}}
    \cup {BounceScript(x0, vx, vy) : x0 \in {0, 25}, vx \in {100, -30, -1}, vy \in {0, 70, -45}}
    \cup {ArrowsScript(width, speed) : width \in {10, 45}, speed \in {10, 30}}
    \cup {FollowScript}

\* The keys with a held-key callback in these scripts.
JumpKeys == {"up"}

Starts(wd) ==
    /\ objs = wd.objs
    /\ sprites = wd.sprites
    /\ platforms = wd.platforms
    /\ overlap_handlers = wd.overlap_handlers
    /\ key_handlers = wd.key_handlers
    /\ click_handlers = wd.click_handlers
    /\ update_handlers = wd.update_handlers
    /\ game_update_handlers = wd.game_update_handlers
    /\ game_start_handlers = wd.game_start_handlers
    /\ draw_commands = wd.draw_commands
    /\ text_commands = wd.text_commands
    /\ game_over_flag = wd.game_over_flag
    /\ game_over_msg = wd.game_over_msg
    /\ globs = wd.globs
    /\ hits = wd.hits
    /\ log = wd.log

\* start() up to the loop, for one of the scripts.
LabInit ==
    /\ \E script \in LabScripts : Starts(RunStartHandlers(script, 1))
    /\ running = TRUE
    /\ dt = 0
    /\ events = <<>>
    /\ pc = "keys"
    /\ frames = 0
    /\ paused = FALSE
    /\ restarted = FALSE
    /\ restarts = 0
    /\ removed = {}

\* clock.tick, no event polled, then the continuous key handlers.
LabHeldKeys ==
    /\ pc = "keys"
    /\ frames < LabFrames
    /\ \E ms \in DtSet, pressed \in SUBSET JumpKeys :
          /\ dt' = ms
          /\ Becomes(KeyDispatch(EnterPass([World EXCEPT !.log = <<>>], "keys"), pressed, 1))
    /\ frames' = frames + 1
    /\ pc' = "update"
    /\ UNCHANGED <<running, events, paused, restarted, restarts, removed>>

\* on_game_update hooks: the control_arrows closures.
LabUpdate ==
    /\ pc = "update"
    /\ \E pressed \in SUBSET Arrows :
          Becomes(HandlerDispatch(EnterPass(World, "update"), pressed, dt, 1))
    /\ pc' = "physics"
    /\ UNCHANGED <<running, dt, events, frames, paused, restarted,
                   restarts, removed>>

\* The physics loop; nothing else of the frame acts for these scripts.
LabPhysics ==
    /\ pc = "physics"
    /\ Becomes(PhysicsStep(EnterPass(World, "physics"), dt))
    /\ pc' = "keys"
    /\ UNCHANGED <<running, dt, events, frames, paused, restarted,
                   restarts, removed>>

LabNext ==
    \/ LabHeldKeys
    \/ LabUpdate
    \/ LabPhysics

LabSpec == LabInit /\ [][LabNext]_vars

\* ============================================================ claims
IsPass(e) == e.k = "pass"

IsCall(e) == e.k \in {"start", "key", "click", "pre", "overlap", "post"}

IsPre(e) == e.k = "pre"

IsPost(e) == e.k = "post"

\* The passes an iteration entered, in order.
PassNames(l) == [i \in 1..Len(SelectSeq(l, IsPass)) |-> SelectSeq(l, IsPass)[i].n]

RunningOrder ==
    <<"events", "keys", "update", "physics", "overlap", "hooks", "draw", "clear">>

GameOverOrder == <<"events", "screen">>

IsPrefix(s, t) == Len(s) <= Len(t) /\ \A i \in 1..Len(s) : s[i] = t[i]

\* The pass during which entry j was logged ("launch" before the first).
RECURSIVE PassAt(_, _)
PassAt(l, j) ==
    IF j = 0 THEN "launch"
    ELSE IF l[j].k = "pass" THEN l[j].n
    ELSE PassAt(l, j - 1)

\* The pass each kind of entry belongs to.
PassOf(k) ==
    CASE k = "click"    -> {"events"}
      [] k = "start"    -> {"events", "launch"}
      [] k = "key"      -> {"keys"}
      [] k = "pre"      -> {"update"}
      [] k = "landtest" -> {"physics"}
      [] k = "overlap"  -> {"overlap"}
      [] k = "post"     -> {"hooks"}
      [] k \in {"blit", "circle", "text"} -> {"draw"}
      [] OTHER -> {"launch", "events", "keys", "update", "physics", "overlap",
                   "hooks", "draw", "clear", "screen"}

\* The callbacks of one kind an iteration invoked: <<place, name>>, in order.
Invoked(l, Kind(_)) ==
    [i \in 1..Len(SelectSeq(l, Kind)) |->
        <<SelectSeq(l, Kind)[i].i, SelectSeq(l, Kind)[i].n>>]

Registered(handlers) == [i \in 1..Len(handlers) |-> <<i, handlers[i]>>]

\* C1: in every iteration that does not end on the game-over screen the
\* passes run in the order events, held keys, pre-physics callbacks, physics,
\* overlap, post-physics callbacks, rendering, clearing of the buffers; every
\* callback, landing test and drawing is done inside its own pass, and the
\* pre- and post-physics callbacks are invoked in registration order.
C1_PassOrder ==
    /\ \/ IsPrefix(PassNames(log), RunningOrder)
       \/ PassNames(log) = GameOverOrder
    /\ (pc = "loop" /\ frames > 0) =>
          \/ PassNames(log) = RunningOrder
          \/ PassNames(log) = GameOverOrder /\ game_over_flag
    /\ \A j \in DOMAIN log : PassAt(log, j) \in PassOf(log[j].k)
    /\ ("update" \in Range(PassNames(log)) /\ pc # "update") =>
          Invoked(log, IsPre) = Registered(game_update_handlers)
    /\ ("hooks" \in Range(PassNames(log)) /\ pc # "hooks") =>
          Invoked(log, IsPost) = Registered(update_handlers)

\* A Running iteration that dispatched a click, then an overlap, is complete.
C1_Witness ==
    /\ pc = "loop"
    /\ PassNames(log) = RunningOrder
    /\ \E e \in Range(log) : e.k = "click"
    /\ \E e \in Range(log) : e.k = "overlap"
    /\ \E e \in Range(log) : e.k = "landtest"

\* The entries an iteration logged for user callbacks, landing tests and
\* simulation passes.
Simulated(l) ==
    {j \in DOMAIN l :
        \/ l[j].k \in {"key", "pre", "landtest", "overlap", "post"}
        \/ l[j].k = "pass" /\ l[j].n \in {"keys", "update", "physics", "overlap", "hooks"}}

\* C2: in an iteration that began with the game-over flag set, up to the
\* restart, no step invokes a held-key, pre-physics, overlap, post-physics,
\* click or on-start callback or enters a simulation pass, and no step
\* changes the sprite registry or any field of any sprite.
C2_GameOverSuppresses ==
    [][(paused /\ ~restarted /\ restarts' = restarts /\ pc # "loop") =>
          /\ sprites' = sprites
          /\ objs' = objs
          /\ \A j \in DOMAIN log' : ~IsCall(log'[j])
          /\ Simulated(log') = {}]_vars

\* An iteration that began in GameOver and handled no restart has ended on
\* the game-over screen, with sprites still registered.
C2_Witness ==
    /\ paused
    /\ ~restarted
    /\ pc = "loop"
    /\ PassNames(log) = GameOverOrder
    /\ sprites # <<>>

\* C3 as stated: the iteration that handled the restart runs no held-key
\* callback, no pre-physics callback, no physics step, no overlap notifier
\* and no post-physics callback.
C3_NoSimulationAfterRestart == restarted => Simulated(log) = {}

\* C3, amended: the restart ends the handling of the polled batch (what is
\* left of it is dropped), and unless the game-over flag is set again the
\* same iteration goes on as a Running iteration: held keys, pre-physics
\* callbacks, physics, overlap, post-physics callbacks, rendering, clearing.
C3_RestartThenRunningFrame ==
    /\ (restarted /\ pc = "events") => events = <<>>
    /\ restarted =>
          \/ IsPrefix(PassNames(log), RunningOrder)
          \/ \E j \in DOMAIN log : log[j].k = "game_over" /\ PassAt(log, j) = "events"
    /\ (restarted /\ pc = "loop") =>
          \/ PassNames(log) = RunningOrder
          \/ \E j \in DOMAIN log : log[j].k = "game_over" /\ PassAt(log, j) = "events"

\* The iteration that handled the restart has run the whole simulation.
C3_Witness ==
    /\ restarted
    /\ pc = "loop"
    /\ PassNames(log) = RunningOrder
    /\ \E e \in Range(log) : e.k = "start"
    /\ \E e \in Range(log) : e.k = "overlap"
    /\ \E e \in Range(log) : e.k = "landtest"

\* C4: the game-over flag goes from set to clear only in the step that
\* handles a SPACE key-down event while the flag is set (and a restart is
\* handled only then); it goes from clear to set only in a step in which
\* game_over was called.
C4_FlagTransitions ==
    [][/\ ((game_over_flag /\ ~game_over_flag') \/ restarts' # restarts) =>
             /\ game_over_flag
             /\ pc = "events"
             /\ events # <<>>
             /\ Head(events) = KeyDown("space")
       /\ (~game_over_flag /\ game_over_flag') =>
             \E j \in (Len(log) + 1)..Len(log') : log'[j].k = "game_over"]_vars

\* The flag was set, cleared by a restart and set again.
C4_Witness == restarts > 0 /\ game_over_flag /\ ~restarted

IsStart(e) == e.k = "start"

\* The sprites of the registry, in order, each with all its attributes.
Attributes(wd) == [i \in 1..Len(wd.sprites) |-> wd.objs[wd.sprites[i]]]

\* The sprites the on-start callbacks created at the first launch: the
\* launch registry without what the script had created before start().
OnStartAttributes ==
    [i \in 1..(Len(Launch.sprites) - Len(Script.sprites)) |->
        Launch.objs[Launch.sprites[i + Len(Script.sprites)]]]

\* Right after the restart branch ran.
JustRestarted == restarted /\ pc = "events"

\* C5 as stated: right after a restart the registry has the same sprites,
\* with the same attributes, as right after the on-start callbacks of the
\* first launch, and none from before the restart.
C5_RestartIdempotent ==
    JustRestarted =>
        /\ Attributes(World) = Attributes(Launch)
        /\ Range(sprites) \cap removed = {}

\* C5, amended: right after a restart the registry holds exactly the sprites
\* the on-start callbacks created at the first launch, with the same count
\* and initial attributes, and none from before the restart; a sprite that
\* was created before start(), outside every on-start callback, is not
\* created again.
C5_RestartRecreatesOnStartSprites ==
    JustRestarted =>
        /\ Attributes(World) = OnStartAttributes
        /\ Range(sprites) \cap removed = {}

\* A restart after frames in which the rock aged and the hero fell.
C5_Witness ==
    /\ JustRestarted
    /\ \E s \in removed : objs[s].age > 0
    /\ \E s \in removed : objs[s].vy > 0

DictKept(d, e) ==
    /\ Len(d) <= Len(e)
    /\ \A i \in DOMAIN d : e[i].key = d[i].key /\ IsPrefix(d[i].fns, e[i].fns)

\* C6: the step that handles a restart keeps every registration where it
\* was (held-key, click, overlap, pre-physics, post-physics, on-start), and
\* invokes every on-start callback exactly once, in registration order,
\* after the reset: the registry then holds exactly the objects created by
\* these calls and the buffers exactly what these calls issued.
C6_RestartKeepsRegistrations ==
    [][restarts' # restarts =>
          /\ DictKept(key_handlers, key_handlers')
          /\ DictKept(click_handlers, click_handlers')
          /\ IsPrefix(overlap_handlers, overlap_handlers')
          /\ IsPrefix(game_update_handlers, game_update_handlers')
          /\ IsPrefix(update_handlers, update_handlers')
          /\ IsPrefix(game_start_handlers, game_start_handlers')
          /\ Invoked(SubSeq(log', Len(log) + 1, Len(log')), IsStart)
                = Registered(game_start_handlers')
          /\ sprites' = [i \in 1..(Len(objs') - Len(objs)) |-> Len(objs) + i]
          /\ sprites' # <<>>
          /\ draw_commands' = Launch.draw_commands
          /\ text_commands' = Launch.text_commands]_vars

\* A restart has run the on-start callback again: its registrations were
\* added to the ones kept.
C6_Witness ==
    /\ JustRestarted
    /\ Len(overlap_handlers) > Len(Launch.overlap_handlers)
    /\ IsPrefix(Launch.overlap_handlers, overlap_handlers)
    /\ text_commands # <<>>

\* C7 as stated: after a restart no sprite the restart removed from the
\* registry is tested by the platform-landing check (every platform tested
\* is in the current registry) and none is passed to an overlap callback.
C7_NoStaleReference ==
    restarts > 0 =>
        \A j \in DOMAIN log :
            /\ log[j].k = "landtest" =>
                  log[j].b \notin removed /\ log[j].b \in Range(sprites)
            /\ log[j].k = "overlap" =>
                  log[j].a \notin removed /\ log[j].b \notin removed

\* C8 as stated: a click callback is never invoked for a sprite whose alive
\* flag is false.
C8_DeadSpriteNotClicked ==
    \A j \in DOMAIN log : log[j].k = "click" => log[j].ok

\* Two rectangles with a pixel in common.
Overlapping(r, q) ==
    /\ Max(r.x, q.x) < Min(r.x + r.w, q.x + q.w)
    /\ Max(r.y, q.y) < Min(r.y + r.h, q.y + q.h)

Stationary(o) == o.vx = 0 /\ o.vy = 0 /\ o.gravity = <<>> /\ o.follow = <<>>

\* The triples whose two sprites are alive and overlapping.
Touching ==
    {i \in DOMAIN overlap_handlers :
        /\ objs[overlap_handlers[i].a].alive
        /\ objs[overlap_handlers[i].b].alive
        /\ Overlapping(objs[overlap_handlers[i].a], objs[overlap_handlers[i].b])}

IsOverlap(e) == e.k = "overlap"

\* The places, in order, of the triples whose callback an iteration invoked.
Fired(l) == [i \in 1..Len(SelectSeq(l, IsOverlap)) |-> SelectSeq(l, IsOverlap)[i].i]

\* C9: the overlap pass of a Running frame invokes the callback of every
\* triple whose sprites are alive and overlapping exactly once, in
\* registration order, and no other; so while the stationary target stays
\* alive on the platform the counter equals the number of Running frames.
C9_OverlapEveryFrame ==
    [][/\ pc = "overlap" =>
             /\ Range(Fired(log')) = Touching
             /\ \A i, j \in DOMAIN Fired(log') : i < j => Fired(log')[i] < Fired(log')[j]
             /\ hits' = hits + Cardinality(Touching)
       /\ pc # "overlap" => hits' = hits
       /\ (/\ pc' = "loop" /\ restarts' = 0 /\ ~game_over_flag'
           /\ objs'[globs'.b].alive /\ Stationary(objs'[globs'.b])) =>
             hits' = frames']_vars

\* Three Running frames with the target resting on the platform: three calls.
C9_Witness ==
    /\ pc = "loop"
    /\ restarts = 0
    /\ ~game_over_flag
    /\ objs[globs.b].alive
    /\ frames = 3
    /\ hits = 3

\* C10: a sprite with lifetime L ages by dt in each physics step that finds
\* it alive in the registry and in no other step, and after every step it is
\* alive exactly when its accumulated age is below L: the first physics step
\* at which the age reaches L marks it not-alive.
C10_Lifetime ==
    [][\A s \in DOMAIN objs :
          objs[s].lifetime # <<>> =>
             /\ objs'[s].alive <=> objs'[s].age < objs[s].lifetime[1] * MsPerSec
             /\ objs'[s].age =
                   IF pc = "physics" /\ s \in Range(sprites) /\ objs[s].alive
                   THEN objs[s].age + dt
                   ELSE objs[s].age]_vars

\* A rock that expired in the step at which its age reached its lifetime
\* exactly, after steps of different durations.
C10_Witness ==
    \E s \in DOMAIN objs :
        /\ objs[s].lifetime # <<>>
        /\ ~objs[s].alive
        /\ objs[s].age = objs[s].lifetime[1] * MsPerSec
        /\ frames = 3

\* ------------------------------------------------ physics loop claims
\* The sprite as the landing test of this physics step finds it: after its
\* own follow, gravity, movement and bounce sub-steps.
BeforeLanding(s) ==
    BounceStep(MoveStep(GravityStep(FollowStep(World, s, dt), s, dt), s, dt), s).objs[s]

\* The places in _platforms of the platforms a rectangle overlaps.
Overlapped(o) == {i \in DOMAIN platforms : colliderect(o, objs[platforms[i]])}

IsLandTest(e) == e.k = "landtest"

\* The landing tests an iteration made for sprite s: <<place, hit>>, in order.
LandTests(l, s) ==
    LET t == SelectSeq(SelectSeq(l, IsLandTest), LAMBDA e : e.a = s)
    IN  [i \in 1..Len(t) |-> <<t[i].i, t[i].ok>>]

\* C11: in the physics step of a gravity-enabled sprite whose vertical
\* velocity (gravity added) is non-negative and whose moved rectangle
\* overlaps at least one registered platform, the bottom edge is set to the
\* top edge of the first overlapping platform in registration order, the
\* vertical velocity to 0 and on_ground to true; the platforms are tested in
\* registration order up to that one and none after it.
C11_PlatformLanding ==
    [][pc = "physics" =>
          \A s \in Range(sprites) :
              (objs[s].alive /\ objs[s].gravity # <<>>) =>
                  LET o == BeforeLanding(s)
                      over == Overlapped(o)
                  IN  (o.vy >= 0 /\ over # {}) =>
                          LET first == CHOOSE i \in over : \A j \in over : i <= j
                          IN  /\ objs'[s].y + objs'[s].h = objs[platforms[first]].y
                              /\ objs'[s].vy = 0
                              /\ objs'[s].on_ground
                              /\ LandTests(log', s) =
                                    [i \in 1..first |-> <<i, i = first>>]]_vars

\* The hero stands on the second platform after missing the first, and
\* still overlaps the third, which was not tested.
C11_Witness ==
    /\ pc = "keys"
    /\ Len(platforms) = 3
    /\ \E s \in Range(sprites) :
          /\ objs[s].gravity # <<>>
          /\ objs[s].on_ground
          /\ objs[s].vy = 0
          /\ objs[s].y + objs[s].h = objs[platforms[2]].y
          /\ colliderect(objs[s], objs[platforms[3]])
          /\ LandTests(log, s) = <<(<<1, FALSE>>), (<<2, TRUE>>)>>

\* C12 as stated: after the physics step of every frame a gravity-enabled
\* sprite's on_ground is true exactly when that step resolved a platform
\* landing for it; it is false in every frame in which no overlap was found,
\* frames in which the sprite moves upward included.
C12_OnGroundExact ==
    [][pc = "physics" =>
          \A s \in Range(sprites) :
              (objs[s].alive /\ objs[s].gravity # <<>>) =>
                  (objs'[s].on_ground <=>
                      \E i \in DOMAIN LandTests(log', s) : LandTests(log', s)[i][2])]_vars

\* rect.x += speed.x * dt on its own: int(x + v * dt).
Integrated(x, v, ms) ==
    Trunc(x * MsPerSec * MsPerSec + v * ms, MsPerSec * MsPerSec)

\* What the edge bounce makes of the integrated coordinate p and the
\* velocity v of a sprite of the given size in a window of the given size.
Bounced(p, v, size, limit) ==
    IF p < 0 THEN <<0, -v>>
    ELSE IF p + size > limit THEN <<limit - size, -v>>
    ELSE <<p, v>>

\* C13: after the physics step a bounce-enabled sprite without gravity that
\* is no wider and no taller than the window lies inside the window on both
\* axes; when the integration put its rectangle past the left or right edge
\* the horizontal velocity is negated and the rectangle set against that
\* edge, otherwise velocity and integrated position are kept; likewise and
\* independently on the vertical axis.
C13_EdgeBounce ==
    [][pc = "physics" =>
          \A s \in Range(sprites) :
              LET o == objs[s]
                  n == objs'[s]
              IN  (o.alive /\ o.bounce /\ o.gravity = <<>>
                           /\ o.w <= Width /\ o.h <= Height) =>
                      /\ 0 <= n.x /\ n.x + n.w <= Width
                      /\ 0 <= n.y /\ n.y + n.h <= Height
                      /\ o.follow = <<>> =>
                            /\ <<n.x, n.vx>> = Bounced(Integrated(o.x, o.vx, dt), o.vx, o.w, Width)
                            /\ <<n.y, n.vy>> = Bounced(Integrated(o.y, o.vy, dt), o.vy, o.h, Height)]_vars

\* One frame of a second took a 10-wide sprite with velocity (100, 70) past
\* the right and the bottom edge of the 50 x 50 window: it lies against
\* both with both velocities negated.
C13_Witness ==
    /\ pc = "keys"
    /\ frames = 1
    /\ dt = MsPerSec
    /\ \E s \in Range(sprites) :
          /\ objs[s].bounce
          /\ objs[s].w = 10
          /\ objs[s].x = 40 /\ objs[s].vx = -100 * MsPerSec
          /\ objs[s].y = 40 /\ objs[s].vy = -70 * MsPerSec

\* The orderings of a registry.
Orderings(reg) == {p \in [1..Len(reg) -> Range(reg)] : Range(p) = Range(reg)}

\* What a world holds of each sprite: position, velocity, age, on_ground
\* and alive.
Outcome(wd) ==
    [s \in DOMAIN wd.objs |->
        <<wd.objs[s].x, wd.objs[s].y, wd.objs[s].vx, wd.objs[s].vy,
          wd.objs[s].age, wd.objs[s].on_ground, wd.objs[s].alive>>]

\* C20 as stated: for any two orderings of the same sprites one physics
\* step with the same dt leaves every sprite with the same position,
\* velocity, age, on_ground and alive value.
C20_OrderIndependent ==
    \A ms \in DtSet :
        \A reg \in Orderings(sprites) :
            Outcome(PhysicsStep([World EXCEPT !.sprites = reg], ms)) =
                Outcome(PhysicsStep(World, ms))

\* ---------------------------------------------- control_arrows claims
\* The closures control_arrows registered with bounds.
Bounded == {i \in DOMAIN game_update_handlers : game_update_handlers[i].bounds # <<>>}

\* C15 as stated: after each invocation of a control_arrows handler
\* registered with bounds (x0, y0, x1, y1) the sprite's rectangle lies fully
\* inside the bounds, whatever keys are held, whatever the speed and dt.
C15_ArrowsInsideBounds ==
    [][pc = "update" =>
          \A i \in Bounded :
              LET h == game_update_handlers[i]
                  n == objs'[h.sprite]
              IN  /\ h.bounds[1] <= n.x /\ n.x + n.w <= h.bounds[3]
                  /\ h.bounds[2] <= n.y /\ n.y + n.h <= h.bounds[4]]_vars

\* C15, amended: after each invocation the rectangle lies inside the bounds
\* on every axis on which the sprite is no larger than the bounds; on an
\* axis on which it is larger its low edge is put on the low bound.  The
\* axes do not influence each other: what holds on one does not depend on
\* whether the sprite fits on the other.
C15_ArrowsInsideWhenFits ==
    [][pc = "update" =>
          \A i \in Bounded :
              LET h == game_update_handlers[i]
                  n == objs'[h.sprite]
              IN  /\ IF n.w <= h.bounds[3] - h.bounds[1]
                     THEN h.bounds[1] <= n.x /\ n.x + n.w <= h.bounds[3]
                     ELSE n.x = h.bounds[1]
                  /\ IF n.h <= h.bounds[4] - h.bounds[2]
                     THEN h.bounds[2] <= n.y /\ n.y + n.h <= h.bounds[4]
                     ELSE n.y = h.bounds[2]]_vars

\* The handler ran with right and up held long enough to reach both bounds:
\* the sprite lies against the right and the top bound.
C15_Witness ==
    /\ pc = "physics"
    /\ \E i \in Bounded :
          LET h == game_update_handlers[i]
              o == objs[h.sprite]
          IN  /\ o.w = 10
              /\ o.x + o.w = h.bounds[3]
              /\ o.y = h.bounds[2]

\* ----------------------------------------------------- main loop claims
\* C14 as stated: every quit event of a polled batch ends the loop, whatever
\* precedes it in the batch: after each step of the iteration the event is
\* either still waiting in the batch or running is false, and the loop is
\* left at the end of the iteration.
C14_QuitEndsLoop ==
    [][/\ (pc = "events" /\ Quit \in Range(events)) =>
             (Quit \in Range(events') \/ ~running')
       /\ (~running /\ pc = "loop") => pc' = "exit"
       /\ ~running => ~running']_vars

Marked(l) == {l[j].a : j \in {i \in DOMAIN l : l[i].k = "destroy" /\ l[i].ok}}

\* What C17 says of a single step: a sprite leaves the registry only in the
\* physics loop (or in a restart, which empties the registry); the physics
\* loop removes exactly the sprites that were not alive when it began, and
\* runs none of its sub-steps for them.
SweepOnly ==
    /\ Range(sprites) \ Range(sprites') # {} =>
          (pc = "physics" \/ restarts' # restarts)
    /\ pc = "physics" =>
          /\ sprites' = SelectSeq(sprites, LAMBDA s : objs[s].alive)
          /\ \A s \in Range(sprites) : ~objs[s].alive => objs'[s] = objs[s]

\* C17 as stated: a sprite marked not-alive at any point of a frame stays in
\* the registry for the rest of that frame, and is removed by the physics
\* loop of the following frame, never in another pass.
C17_RemovedInFollowingFrame ==
    [][/\ \A s \in Marked(log') : s \in Range(sprites') \/ s \in removed'
       /\ SweepOnly]_vars

\* C17, amended: a sprite marked not-alive stays in the registry until the
\* next physics loop runs, which removes it: the one of the same frame when
\* it was marked before it (event, held-key or pre-physics pass), the one of
\* the following Running frame otherwise; no other pass removes it.
C17_RemovedByNextSweep ==
    [][/\ \A s \in Marked(log') :
             (s \in Range(sprites') \/ s \in removed'
                \/ "physics" \in Range(PassNames(log')))
       /\ \A s \in Range(sprites') :
             (~objs'[s].alive /\ "physics" \in Range(PassNames(log'))) =>
                 s \in Marked(log')
       /\ SweepOnly]_vars

\* The held-key callback destroyed the target and the physics loop of the
\* same frame has removed it.
C17_Witness ==
    /\ pc = "overlap"
    /\ restarts = 0
    /\ globs.b \in Marked(log)
    /\ \E j \in DOMAIN log : log[j].k = "destroy" /\ PassAt(log, j) = "keys"
    /\ globs.b \notin Range(sprites)

\* C18: a sprite marked not-alive is rendered by at most one draw pass after
\* it was marked: every not-alive sprite a draw pass renders was marked in
\* the same iteration, after the physics loop looked at it, and a sprite
\* once not-alive is never alive again.
C18_DrawnDeadOnce ==
    [][/\ pc = "draw" =>
             \A j \in DOMAIN log' :
                 (log'[j].k = "blit" /\ ~log'[j].ok) => log'[j].a \in Marked(log)
       /\ \A s \in DOMAIN objs : ~objs[s].alive => ~objs'[s].alive]_vars

\* A draw pass rendered the rock that the lifetime step of the same frame
\* had marked not-alive.
C18_Witness ==
    /\ pc = "flip"
    /\ \E j \in DOMAIN log :
          /\ log[j].k = "blit"
          /\ ~log[j].ok
          /\ log[j].a \in Marked(log)
          /\ objs[log[j].a].lifetime # <<>>

IsCircle(e) == e.k = "circle"

IsText(e) == e.k = "text"

\* The texts an iteration rendered, in order.
Texts(l) == [i \in 1..Len(SelectSeq(l, IsText)) |-> SelectSeq(l, IsText)[i].n]

\* C19: a command issued through draw_circle or write is rendered in at most
\* one frame: commands are rendered by the draw pass only, which renders
\* what the buffers hold, and the step after it empties both buffers, so
\* they are empty at the end of every iteration that rendered the sprites;
\* the reset of a restart empties them too, the on-start callbacks starting
\* from empty buffers.
C19_TransientBuffers ==
    [][/\ pc = "draw" =>
             /\ pc' = "flip"
             /\ draw_commands' = draw_commands /\ text_commands' = text_commands
             /\ Len(SelectSeq(log', IsCircle)) = Len(draw_commands)
             /\ Texts(log') = [i \in DOMAIN text_commands |-> text_commands[i][1]]
       /\ pc # "draw" =>
             /\ Len(SelectSeq(log', IsCircle)) <= Len(SelectSeq(log, IsCircle))
             /\ Len(SelectSeq(log', IsText)) <= Len(SelectSeq(log, IsText))
       /\ pc = "flip" =>
             pc' = "loop" /\ draw_commands' = <<>> /\ text_commands' = <<>>
       /\ (pc' = "loop" /\ "draw" \in Range(PassNames(log'))) =>
             draw_commands' = <<>> /\ text_commands' = <<>>
       /\ restarts' # restarts =>
             /\ ResetState(World).draw_commands = <<>>
             /\ ResetState(World).text_commands = <<>>
             /\ draw_commands' = <<>>
             /\ text_commands' = <<(<<"Go", 20, 20, 24>>)>>]_vars

\* The iteration that handled a restart rendered the text of the on-start
\* callback, the text of the pre-physics callback and a circle, once each,
\* and ended with both buffers empty.
C19_Witness ==
    /\ pc = "loop"
    /\ restarted
    /\ Texts(log) = <<"Go", "Score">>
    /\ Len(SelectSeq(log, IsCircle)) = 1
    /\ draw_commands = <<>>
    /\ text_commands = <<>>

====
